---- MODULE Spec2Model ----
(***************************************************************************)
(* A model of PDF_READ.py: the character chunker, the indexer, the context *)
(* builder and the Streamlit session script (upload / reset / question).   *)
(* Text is a sequence of one-character strings.                            *)
(***************************************************************************)
EXTENDS Integers, Sequences, FiniteSets, TLC

VARIABLES
    chunker,        \* one call of chunk_text: its arguments and its locals
    ctx,            \* one call of build_context: its arguments and its result
    indexer,        \* one call of index_pdf_into_snowflake: arguments and result
    doc_id,         \* st.session_state.doc_id
    pdf_name,       \* st.session_state.pdf_name
    messages,       \* st.session_state.messages
    uploader_key,   \* st.session_state.uploader_key
    pdf,            \* the file held by the file_uploader widget
    store,          \* the rows of PDF_BOT.APP.PDF_CHUNKS written by this session
    tmp_tables,     \* the TMP_CHUNKS_<doc_id> staging tables that exist
    calls,          \* the external calls made by the latest run, in order
    uuid_count,     \* how many uuid4() values have been drawn
    delFailed,      \* history: some DELETE statement has raised
    failures,       \* history: how many external statements have raised
    lastRun         \* history: the latest script run and the state it started from

vars == <<chunker, ctx, indexer, doc_id, pdf_name, messages, uploader_key, pdf,
          store, tmp_tables, calls, uuid_count, delFailed, failures, lastRun>>

sessionVars == <<doc_id, pdf_name, messages, uploader_key, pdf, uuid_count,
                 delFailed, failures, lastRun>>

-----------------------------------------------------------------------------
(* Bounds of the model *)

MaxLen == 5          \* longest text handed to chunk_text in SpecChunk
MaxChunkSize == 3    \* largest chunk_size / overlap tried in SpecChunk
MaxRows == 3         \* most retrieved rows handed to build_context
MaxChars == 30       \* largest max_chars handed to build_context
MaxPages == 2        \* most pages handed to index_pdf_into_snowflake
MaxUploads == 2      \* uuid4() draws in one session
MaxResets == 1       \* Reset clicks in one session
MaxQuestions == 1    \* questions recorded in one session
MaxFailures == 1     \* external statements that raise in one session

\* the runaway loop of chunk_text is cut after this many chunks
MaxIter == MaxLen + 2

-----------------------------------------------------------------------------
(* Program constants *)

CHUNK_SIZE == 1200
OVERLAP == 200
MinChunkLen == 40

-----------------------------------------------------------------------------
(* Strings *)

Min(S) == CHOOSE x \in S : \A y \in S : x <= y
Max(S) == CHOOSE x \in S : \A y \in S : x >= y

Rep(c, n) == [i \in 1..n |-> c]

WS == {" ", "\n"}

RECURSIVE FirstKept(_, _)
\* the first index from i on that holds no whitespace, Len(s) + 1 if none
FirstKept(s, i) ==
    IF i > Len(s) \/ s[i] \notin WS THEN i ELSE FirstKept(s, i + 1)

RECURSIVE LastKept(_, _)
\* the last index up to i that holds no whitespace, 0 if none
LastKept(s, i) ==
    IF i < 1 \/ s[i] \notin WS THEN i ELSE LastKept(s, i - 1)

\* str.strip(): leading and trailing whitespace removed
Strip(s) == SubSeq(s, FirstKept(s, 1), LastKept(s, Len(s)))

\* s[a:b] for 0 <= a, 0 <= b
Slice(s, a, b) == SubSeq(s, a + 1, Min({b, Len(s)}))

DigitChar == <<"0", "1", "2", "3", "4", "5", "6", "7", "8", "9">>

RECURSIVE Decimal(_)
\* str(n) for n >= 0, as the f-string formats PAGE_NUMBER
Decimal(n) ==
    IF n < 10 THEN <<DigitChar[n + 1]>>
    ELSE Decimal(n \div 10) \o <<DigitChar[(n % 10) + 1]>>

RECURSIVE JoinWith(_, _)
\* sep.join(parts)
JoinWith(parts, sep) ==
    IF Len(parts) = 0 THEN <<>>
    ELSE IF Len(parts) = 1 THEN parts[1]
    ELSE parts[1] \o sep \o JoinWith(Tail(parts), sep)

-----------------------------------------------------------------------------
(* chunk_text *)

\* end = min(len(text), start + chunk_size)
ChunkEnd(t, start, chunk_size) == Min({Len(t), start + chunk_size})

\* a next start that forgets the clamp of the step to at least one character
NextStartStuck(end, overlap) == Max({0, end - overlap - 1})

\* a next start that drops the overlap
NextStartNoOverlap(end, overlap) == end

\* start = max(0, end - overlap)
NextStart(end, overlap) == Max({0, end - overlap})

\* one pass through the body of the while loop, from the loop state st
ChunkIter(t, chunk_size, overlap, st) ==
    LET end == ChunkEnd(t, st.start, chunk_size)
    IN  [start  |-> IF end = Len(t) THEN st.start ELSE NextStart(end, overlap),
         chunks |-> Append(st.chunks, Slice(t, st.start, end)),
         starts |-> Append(st.starts, st.start),
         brk    |-> (end = Len(t))]

RECURSIVE ChunkLoop(_, _, _, _)
\* the while loop run to its end (only for chunk_size > overlap)
ChunkLoop(t, chunk_size, overlap, st) ==
    IF ~(st.start < Len(t)) THEN st.chunks
    ELSE LET nx == ChunkIter(t, chunk_size, overlap, st)
         IN  IF nx.brk THEN nx.chunks
             ELSE ChunkLoop(t, chunk_size, overlap, nx)

\* chunk_text(text, chunk_size, overlap)
ChunkText(text, chunk_size, overlap) ==
    LET t == Strip(text)
    IN  IF t = <<>> THEN <<>>
        ELSE ChunkLoop(t, chunk_size, overlap,
                       [start |-> 0, chunks |-> <<>>, starts |-> <<>>, brk |-> FALSE])

-----------------------------------------------------------------------------
(* Values that stand for "nothing" *)

NoDoc == 0                      \* doc_id is None
NoName == <<"<", "n", ">">>     \* pdf_name is None (no filename has this form)
NoFile == [name |-> NoName, texts |-> <<>>, corrupt |-> FALSE]   \* pdf is None

IdleChunker == [pc |-> "idle", text |-> <<>>, chunk_size |-> 0, overlap |-> 0,
                t |-> <<>>, start |-> 0, chunks |-> <<>>, starts |-> <<>>]
IdleCtx == [pc |-> "idle", rows |-> <<>>, max_chars |-> 0, result |-> <<>>]
IdleIndexer == [pc |-> "idle", pages |-> <<>>, chunk_size |-> 0, overlap |-> 0,
                chunk_rows |-> <<>>, ret |-> 0, raised |-> FALSE]
NoQuestion == "<none>"          \* chat_input returned None
NoRun == [kind |-> "none", file |-> NoFile, question |-> NoQuestion,
          replaced |-> FALSE, fired |-> FALSE, failed |-> FALSE,
          before |-> [doc_id |-> NoDoc, uuid_count |-> 0, rows |-> 0, msgs |-> 0]]

\* lines 154-161: the session state of a fresh session, nothing stored yet
SessionInit ==
    /\ doc_id = NoDoc
    /\ pdf_name = NoName
    /\ messages = <<>>
    /\ uploader_key = 0
    /\ pdf = NoFile
    /\ store = {}
    /\ tmp_tables = {}
    /\ calls = <<>>
    /\ uuid_count = 0
    /\ delFailed = FALSE
    /\ failures = 0
    /\ lastRun = NoRun

-----------------------------------------------------------------------------
(* SpecChunk: chunk_text run one loop iteration at a time *)

Alphabet == {"a", "b", " "}

RECURSIVE SeqsUpTo(_, _)
\* every sequence over S of length at most n
SeqsUpTo(S, n) ==
    IF n = 0 THEN {<<>>}
    ELSE LET shorter == SeqsUpTo(S, n - 1)
         IN  shorter \cup {Append(s, x) : s \in {r \in shorter : Len(r) = n - 1}, x \in S}

InitChunk ==
    /\ \E text \in SeqsUpTo(Alphabet, MaxLen),
          chunk_size \in 1..MaxChunkSize, overlap \in 0..MaxChunkSize :
          chunker = [IdleChunker EXCEPT !.pc = "call", !.text = text,
                                        !.chunk_size = chunk_size,
                                        !.overlap = overlap]
    /\ ctx = IdleCtx
    /\ indexer = IdleIndexer
    /\ SessionInit

\* lines 40-44: strip, return [] for an empty text, else enter the loop at 0
ChunkEnter ==
    /\ chunker.pc = "call"
    /\ LET t == Strip(chunker.text)
       IN  chunker' = [chunker EXCEPT !.t = t,
                                      !.pc = IF t = <<>> THEN "done" ELSE "loop"]
    /\ UNCHANGED <<ctx, indexer, store, tmp_tables, calls, sessionVars>>

\* lines 45-50: the loop test and one pass through the body
ChunkStep ==
    /\ chunker.pc = "loop"
    /\ Len(chunker.chunks) < MaxIter
    /\ IF ~(chunker.start < Len(chunker.t))
         THEN chunker' = [chunker EXCEPT !.pc = "done"]
         ELSE LET nx == ChunkIter(chunker.t, chunker.chunk_size, chunker.overlap,
                                  [start |-> chunker.start, chunks |-> chunker.chunks,
                                   starts |-> chunker.starts, brk |-> FALSE])
              IN  chunker' = [chunker EXCEPT !.start = nx.start,
                                             !.chunks = nx.chunks,
                                             !.starts = nx.starts,
                                             !.pc = IF nx.brk THEN "done" ELSE "loop"]
    /\ UNCHANGED <<ctx, indexer, store, tmp_tables, calls, sessionVars>>

NextChunk == ChunkEnter \/ ChunkStep

SpecChunk == InitChunk /\ [][NextChunk]_vars

\* the interpreter keeps running a call that has not returned
SpecChunkFair == SpecChunk /\ WF_vars(NextChunk)

ValidConfig == chunker.chunk_size > chunker.overlap /\ chunker.overlap >= 0

StrictlyIncreasing(q) == \A i \in 1..(Len(q) - 1) : q[i] < q[i + 1]

\* C1: with chunk_size > overlap >= 0 chunk_text terminates: the start offsets
\* of its chunks are strictly increasing, it never produces more chunks than
\* the trimmed text has characters, and the call returns.
C1_Terminates ==
    /\ [](ValidConfig =>
            /\ StrictlyIncreasing(chunker.starts)
            /\ chunker.pc # "call" => Len(chunker.chunks) <= Len(chunker.t))
    /\ <>(ValidConfig => chunker.pc = "done")

\* C1 witness: a valid call with the smallest step (chunk_size - overlap = 1)
\* returned three or more chunks
C1_Witness ==
    /\ ValidConfig /\ chunker.pc = "done"
    /\ Len(chunker.chunks) >= 3
    /\ chunker.overlap > 0
    /\ chunker.overlap = chunker.chunk_size - 1

RECURSIVE Reassemble(_, _)
\* the first chunk followed by each later chunk without its first overlap characters
Reassemble(chunks, overlap) ==
    IF Len(chunks) = 0 THEN <<>>
    ELSE IF Len(chunks) = 1 THEN chunks[1]
    ELSE Reassemble(SubSeq(chunks, 1, Len(chunks) - 1), overlap)
         \o Slice(chunks[Len(chunks)], overlap, Len(chunks[Len(chunks)]))

\* C2: with overlap < chunk_size the chunks returned, reassembled with the
\* overlaps removed, are exactly the whitespace-trimmed input, and an empty or
\* whitespace-only input returns no chunk.  The stepwise call and the
\* function ChunkText agree on the result.
C2_Reassembles ==
    (ValidConfig /\ chunker.pc = "done") =>
        /\ Reassemble(chunker.chunks, chunker.overlap) = Strip(chunker.text)
        /\ (\A i \in 1..Len(chunker.text) : chunker.text[i] \in WS)
              => chunker.chunks = <<>>
        /\ chunker.chunks = ChunkText(chunker.text, chunker.chunk_size, chunker.overlap)

\* C2 witness: a padded text was cut into three overlapping chunks
C2_Witness ==
    /\ ValidConfig /\ chunker.pc = "done"
    /\ Len(chunker.chunks) >= 3
    /\ chunker.overlap >= 1
    /\ chunker.text # chunker.t
    /\ \E i, j \in 1..Len(chunker.t) : chunker.t[i] # chunker.t[j]

\* C3: a call with overlap >= chunk_size is rejected with an error and never
\* runs forever.  Stated in the weakest form the claim implies: such a call
\* either ended in an error or never starts two passes of the loop at the
\* same offset.
C3_RejectsBadConfig ==
    (chunker.overlap >= chunker.chunk_size /\ chunker.pc # "call") =>
        \/ chunker.pc = "error"
        \/ \A i \in 1..(Len(chunker.starts) - 1) :
              chunker.starts[i] # chunker.starts[i + 1]

-----------------------------------------------------------------------------
(* build_context *)

\* f"[{r['PDF_NAME']} p.{r['PAGE_NUMBER']}] {r['CHUNK_TEXT']}".strip()
Snippet(r) ==
    Strip(<<"[">> \o r.PDF_NAME \o <<" ", "p", ".">> \o Decimal(r.PAGE_NUMBER)
          \o <<"]", " ">> \o r.CHUNK_TEXT)

RECURSIVE CtxLoopSkip(_, _, _, _, _)
\* a loop that skips the overflowing snippet and goes on with the later ones
CtxLoopSkip(rows, i, parts, total, max_chars) ==
    IF i > Len(rows) THEN parts
    ELSE LET snippet == Snippet(rows[i])
         IN  IF total + Len(snippet) > max_chars
               THEN CtxLoopSkip(rows, i + 1, parts, total, max_chars)
               ELSE CtxLoopSkip(rows, i + 1, Append(parts, snippet),
                                total + Len(snippet), max_chars)

RECURSIVE CtxLoop(_, _, _, _, _)
\* the for loop of build_context from row i on, with its break
CtxLoop(rows, i, parts, total, max_chars) ==
    IF i > Len(rows) THEN parts
    ELSE LET snippet == Snippet(rows[i])
         IN  IF total + Len(snippet) > max_chars
               THEN parts
               ELSE CtxLoop(rows, i + 1, Append(parts, snippet),
                            total + Len(snippet), max_chars)

\* build_context(rows, max_chars)
BuildContext(rows, max_chars) ==
    JoinWith(CtxLoop(rows, 1, <<>>, 0, max_chars), <<"\n", "\n">>)

-----------------------------------------------------------------------------
(* SpecCtx: build_context called on drawn rows *)

CtxNames == {<<"f">>}
CtxPageNumbers == {1, 10}
CtxTexts == {<<>>, <<"a", "b">>, <<"a", " ", "b", " ">>}

CtxMatches ==
    [PDF_NAME : CtxNames, PAGE_NUMBER : CtxPageNumbers, CHUNK_TEXT : CtxTexts]

InitCtx ==
    /\ \E rows \in SeqsUpTo(CtxMatches, MaxRows), max_chars \in 0..MaxChars :
          ctx = [IdleCtx EXCEPT !.pc = "call", !.rows = rows, !.max_chars = max_chars]
    /\ chunker = IdleChunker
    /\ indexer = IdleIndexer
    /\ SessionInit

\* lines 115-125
BuildContextCall ==
    /\ ctx.pc = "call"
    /\ ctx' = [ctx EXCEPT !.pc = "done",
                          !.result = BuildContext(ctx.rows, ctx.max_chars)]
    /\ UNCHANGED <<chunker, indexer, store, tmp_tables, calls, sessionVars>>

NextCtx == BuildContextCall

SpecCtx == InitCtx /\ [][NextCtx]_vars

RECURSIVE SnippetTotal(_, _)
\* the summed length of the snippets of the first k rows
SnippetTotal(rows, k) ==
    IF k = 0 THEN 0 ELSE SnippetTotal(rows, k - 1) + Len(Snippet(rows[k]))

\* the longest leading prefix of rows whose snippets fit in max_chars
FittingPrefix(rows, max_chars) ==
    Max({k \in 0..Len(rows) : SnippetTotal(rows, k) <= max_chars})

\* C4: build_context returns the blank-line join of the snippets of exactly
\* the longest leading prefix of the rows whose summed snippet length is at
\* most max_chars; nothing after the first overflowing snippet is included,
\* and the result is empty for no rows or a first snippet that overflows.
C4_LongestPrefix ==
    ctx.pc = "done" =>
        LET k == FittingPrefix(ctx.rows, ctx.max_chars)
        IN  /\ ctx.result = JoinWith([i \in 1..k |-> Snippet(ctx.rows[i])],
                                     <<"\n", "\n">>)
            /\ (ctx.rows = <<>> \/ Len(Snippet(ctx.rows[1])) > ctx.max_chars)
                  => ctx.result = <<>>

\* C4 witness: three rows, the second overflows, the third alone would have
\* fitted after the first, and only the first is returned
C4_Witness ==
    /\ ctx.pc = "done"
    /\ Len(ctx.rows) = 3
    /\ FittingPrefix(ctx.rows, ctx.max_chars) = 1
    /\ Len(Snippet(ctx.rows[1])) + Len(Snippet(ctx.rows[3])) <= ctx.max_chars
    /\ ctx.result = Snippet(ctx.rows[1])
    /\ ctx.rows[1].CHUNK_TEXT # Strip(ctx.rows[1].CHUNK_TEXT)

-----------------------------------------------------------------------------
(* index_pdf_into_snowflake *)

Call(op, doc, ok) == [op |-> op, doc |-> doc, ok |-> ok]

\* line 61: len(c.strip()) < 40
TooShort(c) == Len(Strip(c)) < MinChunkLen

\* a loop body that counts the discarded chunks too
IndexAddChunkGaps(acc, doc, name, page_number, c) ==
    IF TooShort(c) THEN [acc EXCEPT !.chunk_id = acc.chunk_id + 1]
    ELSE [chunk_rows |-> Append(acc.chunk_rows,
                                [DOC_ID |-> doc, PDF_NAME |-> name,
                                 PAGE_NUMBER |-> page_number,
                                 CHUNK_ID |-> acc.chunk_id, CHUNK_TEXT |-> c]),
          chunk_id |-> acc.chunk_id + 1]

\* lines 61-64: the body of the inner loop, on chunk c of page page_number
IndexAddChunk(acc, doc, name, page_number, c) ==
    IF TooShort(c) THEN acc
    ELSE [chunk_rows |-> Append(acc.chunk_rows,
                                [DOC_ID |-> doc, PDF_NAME |-> name,
                                 PAGE_NUMBER |-> page_number,
                                 CHUNK_ID |-> acc.chunk_id, CHUNK_TEXT |-> c]),
          chunk_id |-> acc.chunk_id + 1]

RECURSIVE IndexPage(_, _, _, _, _, _)
\* line 60: the inner loop over the chunks of one page, from chunk j on
IndexPage(acc, doc, name, page_number, cs, j) ==
    IF j > Len(cs) THEN acc
    ELSE IndexPage(IndexAddChunk(acc, doc, name, page_number, cs[j]),
                   doc, name, page_number, cs, j + 1)

RECURSIVE IndexPages(_, _, _, _, _, _, _)
\* line 59: the outer loop over the pages, from page i on
IndexPages(acc, doc, name, pages, chunk_size, overlap, i) ==
    IF i > Len(pages) THEN acc
    ELSE IndexPages(IndexPage(acc, doc, name, pages[i].page_number,
                              ChunkText(pages[i].text, chunk_size, overlap), 1),
                    doc, name, pages, chunk_size, overlap, i + 1)

\* lines 56-64: chunk_rows as the two loops leave it
IndexRows(doc, name, pages, chunk_size, overlap) ==
    IndexPages([chunk_rows |-> <<>>, chunk_id |-> 1],
               doc, name, pages, chunk_size, overlap, 1).chunk_rows

SeqToSet(q) == {q[i] : i \in 1..Len(q)}

\* what the external statements of a call may do: all succeed, or one raises
IndexOutcomes == {"ok", "fail_save", "fail_insert", "fail_drop"}

\* lines 54-91 on the tables st (PDF_CHUNKS) and tmp (staging tables); a
\* statement that raises has no effect.  The embedding is computed inside
\* the INSERT and is a function of CHUNK_TEXT, so rows do not carry it.
IndexPdf(doc, name, pages, chunk_size, overlap, outcome, st, tmp) ==
    LET chunk_rows == IndexRows(doc, name, pages, chunk_size, overlap)
        base == [chunk_rows |-> chunk_rows, store |-> st, tmp_tables |-> tmp,
                 calls |-> <<>>, ret |-> 0, raised |-> FALSE]
    IN  IF chunk_rows = <<>> THEN base
        ELSE IF outcome = "fail_save"
          THEN [base EXCEPT !.calls = <<Call("save_as_table", doc, FALSE)>>,
                            !.raised = TRUE]
        ELSE IF outcome = "fail_insert"
          THEN [base EXCEPT !.calls = <<Call("save_as_table", doc, TRUE),
                                        Call("insert", doc, FALSE)>>,
                            !.tmp_tables = tmp \cup {doc},
                            !.raised = TRUE]
        ELSE IF outcome = "fail_drop"
          THEN [base EXCEPT !.calls = <<Call("save_as_table", doc, TRUE),
                                        Call("insert", doc, TRUE),
                                        Call("drop", doc, FALSE)>>,
                            !.store = st \cup SeqToSet(chunk_rows),
                            !.tmp_tables = tmp \cup {doc},
                            !.raised = TRUE]
        ELSE [base EXCEPT !.calls = <<Call("save_as_table", doc, TRUE),
                                      Call("insert", doc, TRUE),
                                      Call("drop", doc, TRUE)>>,
                          !.store = st \cup SeqToSet(chunk_rows),
                          !.tmp_tables = tmp \ {doc},
                          !.ret = Len(chunk_rows)]

-----------------------------------------------------------------------------
(* SpecIndex: index_pdf_into_snowflake called on drawn pages *)

IndexTexts ==
    { <<>>,
      Rep("a", MinChunkLen - 1),
      <<" ", " ">> \o Rep("b", MinChunkLen) \o <<" ">>,
      Rep("a", 45) \o Rep(" ", 45) \o Rep("b", 50),
      Rep("a", 86) }

IndexConfigs == {<<45, 0>>, <<45, 5>>, <<CHUNK_SIZE, OVERLAP>>}

\* lines 31-35: pages as parse_pdf_pages_from_upload numbers them
PagesOf(texts) == [i \in 1..Len(texts) |-> [page_number |-> i, text |-> texts[i]]]

InitIndex ==
    /\ \E texts \in SeqsUpTo(IndexTexts, MaxPages), cfg \in IndexConfigs :
          indexer = [IdleIndexer EXCEPT !.pc = "call", !.pages = PagesOf(texts),
                                        !.chunk_size = cfg[1], !.overlap = cfg[2]]
    /\ chunker = IdleChunker
    /\ ctx = IdleCtx
    /\ SessionInit

\* lines 54-91, for document 1 named f
IndexCall ==
    /\ indexer.pc = "call"
    /\ \E outcome \in IndexOutcomes :
          LET r == IndexPdf(1, <<"f">>, indexer.pages, indexer.chunk_size,
                            indexer.overlap, outcome, store, tmp_tables)
          IN  /\ indexer' = [indexer EXCEPT !.pc = "done",
                                            !.chunk_rows = r.chunk_rows,
                                            !.ret = r.ret, !.raised = r.raised]
              /\ store' = r.store
              /\ tmp_tables' = r.tmp_tables
              /\ calls' = r.calls
    /\ UNCHANGED <<chunker, ctx, sessionVars>>

NextIndex == IndexCall

SpecIndex == InitIndex /\ [][NextIndex]_vars

RECURSIVE AllChunks(_, _, _, _)
\* every chunk of every page from page i on, in page order then chunk order
AllChunks(pages, chunk_size, overlap, i) ==
    IF i > Len(pages) THEN <<>>
    ELSE LET cs == ChunkText(pages[i].text, chunk_size, overlap)
         IN  [j \in 1..Len(cs) |-> [page_number |-> pages[i].page_number,
                                    text |-> cs[j]]]
             \o AllChunks(pages, chunk_size, overlap, i + 1)

LongEnough(c) == Len(Strip(c.text)) >= 40

\* C5: the rows index_pdf_into_snowflake builds are exactly the chunks whose
\* trimmed length is at least 40, in page order then chunk order, numbered
\* 1..N without gaps; N is the count returned; for N = 0 it returns 0 and
\* makes no external call.
C5_SequentialIds ==
    indexer.pc = "done" =>
        LET rows == indexer.chunk_rows
            kept == SelectSeq(AllChunks(indexer.pages, indexer.chunk_size,
                                        indexer.overlap, 1), LongEnough)
        IN  /\ Len(rows) = Len(kept)
            /\ \A k \in 1..Len(rows) :
                  /\ rows[k].CHUNK_ID = k
                  /\ rows[k].PAGE_NUMBER = kept[k].page_number
                  /\ rows[k].CHUNK_TEXT = kept[k].text
            /\ ~indexer.raised => indexer.ret = Len(rows)
            /\ Len(rows) = 0 =>
                  /\ indexer.ret = 0 /\ ~indexer.raised
                  /\ calls = <<>> /\ store = {} /\ tmp_tables = {}

\* C5 witness: two pages, chunks discarded inside the first page, rows from
\* both pages stored, three or more rows returned
C5_Witness ==
    /\ indexer.pc = "done" /\ ~indexer.raised
    /\ Len(indexer.pages) = 2
    /\ indexer.ret >= 3
    /\ indexer.ret < Len(AllChunks(indexer.pages, indexer.chunk_size,
                                   indexer.overlap, 1))
    /\ \E r1, r2 \in store : r1.PAGE_NUMBER = 1 /\ r2.PAGE_NUMBER = 2
    /\ \E k \in 1..(Len(indexer.chunk_rows) - 1) :
          /\ indexer.chunk_rows[k].PAGE_NUMBER = 1
          /\ indexer.chunk_rows[k + 1].PAGE_NUMBER = 1
          /\ Len(indexer.chunk_rows[k].CHUNK_TEXT) = indexer.chunk_size
          /\ indexer.chunk_rows[k + 1].CHUNK_TEXT[1] # indexer.chunk_rows[k].CHUNK_TEXT[1]

-----------------------------------------------------------------------------
(* The session script: one run of PDF_READ.py per user interaction *)

\* the session state a run works on; raised: an exception ended the run
SessionState ==
    [doc_id |-> doc_id, pdf_name |-> pdf_name, messages |-> messages,
     uploader_key |-> uploader_key, store |-> store, tmp_tables |-> tmp_tables,
     calls |-> <<>>, uuid_count |-> uuid_count, delFailed |-> delFailed,
     raised |-> FALSE]

\* lines 149-151: DELETE FROM PDF_CHUNKS WHERE DOC_ID = ?; raises when not ok
ClearDoc(s, ok) ==
    [s EXCEPT !.calls = Append(s.calls, Call("delete", s.doc_id, ok)),
              !.store = IF ok THEN {r \in s.store : r.DOC_ID # s.doc_id} ELSE s.store,
              !.delFailed = s.delFailed \/ ~ok,
              !.raised = ~ok]

\* a Reset that forgets to delete the chunks
ResetClearSkip(s, ok) == s

\* lines 180-184: if doc_id: try clear_doc except pass
ResetClear(s, ok) ==
    IF s.doc_id # NoDoc THEN [ClearDoc(s, ok) EXCEPT !.raised = FALSE] ELSE s

\* a replacement whose failed delete is not caught
UploadClearRaises(s, ok) ==
    IF s.doc_id # NoDoc THEN ClearDoc(s, ok) ELSE s

\* lines 195-199: if doc_id: try clear_doc except pass
UploadClear(s, ok) ==
    IF s.doc_id # NoDoc THEN [ClearDoc(s, ok) EXCEPT !.raised = FALSE] ELSE s

\* line 201: str(uuid.uuid4()), the n-th draw differing from all earlier ones
Uuid4(n) == n + 1

\* line 208: the number of pages with text left after strip
NonEmptyPages(pages) == Cardinality({i \in 1..Len(pages) : Strip(pages[i].text) # <<>>})

\* lines 179-189: the Reset button was clicked
ResetBlock(s, delOk) ==
    LET s1 == ResetClear(s, delOk)
    IN  [s1 EXCEPT !.doc_id = NoDoc, !.pdf_name = NoName, !.messages = <<>>,
                   !.uploader_key = s.uploader_key + 1]

\* line 192: the uploader holds a file whose name is not the recorded name
UploadFires(s, file) == file # NoFile /\ s.pdf_name # file.name

\* lines 192-220
UploadBlock(s, file, delOk, idx) ==
    IF ~UploadFires(s, file) THEN s
    ELSE LET s1 == UploadClear(s, delOk)
             s2 == [s1 EXCEPT !.doc_id = Uuid4(s.uuid_count),
                              !.uuid_count = s.uuid_count + 1,
                              !.pdf_name = file.name,
                              !.messages = <<>>]
             pages == PagesOf(file.texts)
             r == IndexPdf(s2.doc_id, s2.pdf_name, pages, CHUNK_SIZE, OVERLAP,
                           idx, s2.store, s2.tmp_tables)
         IN  IF s1.raised THEN s1
             ELSE IF file.corrupt THEN [s2 EXCEPT !.raised = TRUE]
             ELSE IF NonEmptyPages(pages) = 0 THEN s2
             ELSE [s2 EXCEPT !.store = r.store, !.tmp_tables = r.tmp_tables,
                             !.calls = s2.calls \o r.calls,
                             !.raised = r.raised]

\* a question handler that never stops for a missing document
NoActiveDocNever(d) == FALSE

\* line 232: not st.session_state.doc_id
NoActiveDoc(d) == d = NoDoc

\* lines 231-260; answer is what COMPLETE returned, or "No response."
QuestionBlock(s, question, retrOk, genOk, answer) ==
    IF NoActiveDoc(s.doc_id) THEN s
    ELSE LET s1 == [s EXCEPT !.messages =
                        Append(s.messages, [role |-> "user", content |-> question]),
                             !.calls = Append(s.calls, Call("retrieve", s.doc_id, retrOk))]
             s2 == [s1 EXCEPT !.calls = Append(s1.calls, Call("complete", s.doc_id, genOk))]
         IN  IF ~retrOk THEN [s1 EXCEPT !.raised = TRUE]
             ELSE IF ~genOk THEN [s2 EXCEPT !.raised = TRUE]
             ELSE [s2 EXCEPT !.messages =
                      Append(s1.messages, [role |-> "assistant", content |-> answer])]

\* one run of the script, top to bottom: the Reset block (whose st.rerun()
\* restarts the script with an empty uploader and no input), the upload
\* block, the question block; an exception ends the run where it is raised
Script(s, file, reset, question, o) ==
    IF reset THEN ResetBlock(s, o.delOk)
    ELSE LET s1 == UploadBlock(s, file, o.delOk, o.idx)
         IN  IF s1.raised \/ question = NoQuestion THEN s1
             ELSE QuestionBlock(s1, question, o.retrOk, o.genOk, o.answer)

-----------------------------------------------------------------------------
(* Spec: the session under uploads, removals, resets and questions *)

Files ==
    { [name |-> <<"a">>, texts |-> <<Rep("x", 45)>>, corrupt |-> FALSE],
      [name |-> <<"a">>, texts |-> <<Rep("y", 50)>>, corrupt |-> FALSE],
      [name |-> <<"b">>, texts |-> <<Rep("z", 41), <<>>, Rep("w", 60)>>, corrupt |-> FALSE],
      [name |-> <<"s">>, texts |-> <<<<>>, <<" ">>>>, corrupt |-> FALSE],
      [name |-> <<"t">>, texts |-> <<<<"h", "i">>>>, corrupt |-> FALSE],
      [name |-> <<"c">>, texts |-> <<>>, corrupt |-> TRUE] }

Questions == {"q"}
Answers == {"answer", "No response."}

\* what the external calls of a run may do
Outcomes ==
    [delOk : BOOLEAN, idx : IndexOutcomes, retrOk : BOOLEAN, genOk : BOOLEAN,
     answer : Answers]

\* the outcomes as far as a run without a question can tell them apart
StorageOutcomes ==
    {o \in Outcomes : o.retrOk /\ o.genOk /\ o.answer = "answer"}

\* the outcomes as far as a run that only deletes can tell them apart
DeleteOutcomes == {o \in StorageOutcomes : o.idx = "ok"}

\* the outcomes as far as a run whose upload block stays idle can tell them
\* apart (NoUploadWithQuestion: it is idle in every run with a question)
ChatOutcomes == {o \in Outcomes : o.delOk /\ o.idx = "ok"}

\* what the history keeps of the state a run started from
Before ==
    [doc_id |-> doc_id, uuid_count |-> uuid_count, rows |-> Cardinality(store),
     msgs |-> Len(messages)]

\* the session variables after a run that ended in state r
Commit(r) ==
    /\ doc_id' = r.doc_id
    /\ pdf_name' = r.pdf_name
    /\ messages' = r.messages
    /\ uploader_key' = r.uploader_key
    /\ store' = r.store
    /\ tmp_tables' = r.tmp_tables
    /\ calls' = r.calls
    /\ uuid_count' = r.uuid_count
    /\ delFailed' = r.delFailed
    /\ failures' = failures + Cardinality({i \in 1..Len(r.calls) : ~r.calls[i].ok})
    /\ failures' <= MaxFailures

Init ==
    /\ chunker = IdleChunker
    /\ ctx = IdleCtx
    /\ indexer = IdleIndexer
    /\ SessionInit

\* the user puts file f into the uploader; the script runs
SelectFile ==
    /\ uuid_count < MaxUploads
    /\ \E f \in Files, o \in StorageOutcomes :
          /\ f # pdf
          /\ pdf' = f
          /\ Commit(Script(SessionState, f, FALSE, NoQuestion, o))
          /\ lastRun' = [kind |-> "select", file |-> f, question |-> NoQuestion,
                         replaced |-> (pdf # NoFile),
                         fired |-> UploadFires(SessionState, f),
                         failed |-> Script(SessionState, f, FALSE, NoQuestion, o).raised,
                         before |-> Before]
    /\ UNCHANGED <<chunker, ctx, indexer>>

\* the user removes the file from the uploader; the script runs
RemoveFile ==
    /\ pdf # NoFile
    /\ pdf' = NoFile
    /\ \E o \in DeleteOutcomes :
          /\ Commit(Script(SessionState, NoFile, FALSE, NoQuestion, o))
          /\ lastRun' = [kind |-> "remove", file |-> NoFile, question |-> NoQuestion,
                         replaced |-> FALSE, fired |-> FALSE, failed |-> FALSE,
                         before |-> Before]
    /\ UNCHANGED <<chunker, ctx, indexer>>

\* the user clicks Reset; the script runs, and reruns under the new uploader key
ClickReset ==
    /\ uploader_key < MaxResets
    /\ pdf' = NoFile
    /\ \E o \in DeleteOutcomes :
          /\ Commit(Script(SessionState, pdf, TRUE, NoQuestion, o))
          /\ lastRun' = [kind |-> "reset", file |-> NoFile, question |-> NoQuestion,
                         replaced |-> FALSE, fired |-> FALSE, failed |-> FALSE,
                         before |-> Before]
    /\ UNCHANGED <<chunker, ctx, indexer>>

\* the user submits a question; the script runs
AskQuestion ==
    /\ Len(messages) < 2 * MaxQuestions
    /\ \E q \in Questions, o \in ChatOutcomes :
          /\ Commit(Script(SessionState, pdf, FALSE, q, o))
          /\ lastRun' = [kind |-> "question", file |-> pdf, question |-> q,
                         replaced |-> FALSE,
                         fired |-> UploadFires(SessionState, pdf),
                         failed |-> Script(SessionState, pdf, FALSE, q, o).raised,
                         before |-> Before]
    /\ UNCHANGED <<chunker, ctx, indexer, pdf>>

Next == SelectFile \/ RemoveFile \/ ClickReset \/ AskQuestion

Spec == Init /\ [][Next]_vars

\* the upload block is idle in every run that carries a question: the
\* uploader is empty or holds a file with the recorded name
NoUploadWithQuestion ==
    /\ lastRun.kind = "question" => ~lastRun.fired
    /\ pdf # NoFile => pdf.name = pdf_name

\* C6: every new upload creates a fresh doc_id and makes the uploaded file
\* the active document, whatever its filename: after the user has replaced
\* the file in the uploader by another file, doc_id is a value never used
\* before and pdf_name is the new file's name.
C6_EveryUploadReplaces ==
    (lastRun.kind = "select" /\ lastRun.replaced) =>
        /\ doc_id = Uuid4(lastRun.before.uuid_count)
        /\ doc_id \notin 0..lastRun.before.uuid_count
        /\ doc_id # lastRun.before.doc_id
        /\ pdf_name = lastRun.file.name

\* C7: a question submitted while doc_id is unset is not processed: the run
\* makes no external call and leaves the conversation, doc_id, pdf_name and
\* the stored chunks as they were.
C7_NoDocNoProcessing ==
    [][(lastRun'.kind = "question" /\ doc_id = NoDoc) =>
          /\ calls' = <<>>
          /\ messages' = messages
          /\ doc_id' = doc_id
          /\ pdf_name' = pdf_name
          /\ store' = store]_vars

\* C7 witness: a question was asked after a document had been uploaded and
\* reset, with no active document
C7_Witness ==
    /\ lastRun.kind = "question"
    /\ lastRun.before.doc_id = NoDoc
    /\ lastRun.before.uuid_count >= 1
    /\ uploader_key >= 1
    /\ calls = <<>>

\* the history is a sequence of user/assistant pairs
PairsComplete(msgs) ==
    /\ Len(msgs) % 2 = 0
    /\ \A i \in 1..Len(msgs) :
          msgs[i].role = IF i % 2 = 1 THEN "user" ELSE "assistant"

\* C8: a question whose retrieval or generation fails leaves doc_id as it
\* was and the conversation a sequence of complete user/assistant pairs.
C8_FailedQuestionKeepsPairs ==
    (lastRun.kind = "question" /\ lastRun.failed) =>
        /\ doc_id = lastRun.before.doc_id
        /\ PairsComplete(messages)

\* C9: when an upload replaces the active document, the delete of the old
\* doc_id's chunks is the first external call, every later call is for the
\* new doc_id and none is a delete, and whether or not the delete succeeded
\* the new document has its fresh doc_id and name and is indexed.
C9_DeleteThenIndex ==
    (lastRun.kind = "select" /\ lastRun.fired /\ lastRun.before.doc_id # NoDoc) =>
        LET rows == IndexRows(doc_id, pdf_name, PagesOf(lastRun.file.texts),
                              CHUNK_SIZE, OVERLAP)
        IN  /\ Len(calls) >= 1
            /\ calls[1].op = "delete" /\ calls[1].doc = lastRun.before.doc_id
            /\ \A i \in 2..Len(calls) :
                  calls[i].op # "delete" /\ calls[i].doc = doc_id
            /\ doc_id = Uuid4(lastRun.before.uuid_count)
            /\ doc_id # lastRun.before.doc_id
            /\ pdf_name = lastRun.file.name
            /\ (~lastRun.file.corrupt /\ rows # <<>>) =>
                  Len(calls) >= 2 /\ calls[2].op = "save_as_table"
            /\ (\E i \in 1..Len(calls) : calls[i].op = "insert" /\ calls[i].ok) =>
                  SeqToSet(rows) \subseteq store

\* C9 witness: the delete of the old document failed, its rows are still
\* stored, and the new document is indexed under its own doc_id
C9_Witness ==
    /\ lastRun.kind = "select" /\ lastRun.fired
    /\ lastRun.before.doc_id # NoDoc
    /\ ~calls[1].ok
    /\ Len(calls) = 4 /\ calls[3].op = "insert" /\ calls[3].ok
    /\ \E r \in store : r.DOC_ID = lastRun.before.doc_id
    /\ Cardinality({r \in store : r.DOC_ID = doc_id}) >= 2

====
